---- MODULE Spec2Model ----
(***************************************************************************)
(* Model of the AI-summary token stream of the bank dashboard:             *)
(*   - streamAiSummary (frontend/src/features/bank-dashboard/data/api.ts)  *)
(*     the fetch + ReadableStream reader loop, the "\n\n" buffer/split     *)
(*     loop, the JSON decode of every "data: " frame and the three         *)
(*     callbacks onToken / onError / onComplete;                           *)
(*   - the callbacks AiSummarySection.handleSummarize passes to it, which  *)
(*     write status, error, summaryTokens and abortStreamRef.              *)
(*                                                                         *)
(* Text is a sequence of one-character strings.  A JSON object literal is  *)
(* written "{" name "}" where name stands for the text between the braces  *)
(* and Objects[name] is the value JSON.parse gives for it; a chunk may be  *)
(* cut between any two symbols.  hallucination_prob is kept in tenths      *)
(* (1 is 0.1, 10 is 1.0, 15 is 1.5).                                       *)
(***************************************************************************)
EXTENDS Integers, Sequences, FiniteSets, TLC

\* Largest number of frames the server writes to one response body.
MaxFrames == 2
\* Largest number of calls of the returned abort function in one session.
MaxAborts == 2
\* Number of stream sessions of the model.
MaxSessions == 2
\* Largest number of frames of a body in the specifications with several
\* sessions.
PairFrames == 1
\* Ticks of the Relay Tier's total-time budget for one upstream session.
TimeoutBudget == 2
\* Largest number of client data loads BankDashboardProvider starts.
MaxLoads == 3

Sessions == 1..MaxSessions

----------------------------------------------------------------------------
(* JavaScript values *)

Undefined == [ty |-> "undefined", s |-> "", n |-> 0]
Str(x) == [ty |-> "string", s |-> x, n |-> 0]
Num(x) == [ty |-> "number", s |-> "", n |-> x]

\* typeof v === 'number'
IsNumber(v) == v.ty = "number"

\* ToBoolean(v), the test behind && and ||
Truthy(v) ==
  CASE v.ty = "string" -> v.s # ""
    [] v.ty = "number" -> v.n # 0
    [] OTHER -> FALSE

\* An object with the five properties the decoder reads; an absent property
\* reads as undefined.
Obj(type, message, order, token, prob) ==
  [type |-> type, message |-> message, order |-> order, token |-> token,
   hallucination_prob |-> prob]

\* The object literals the server can write, by the name of their text.
Objects ==
  [tHi      |-> Obj(Undefined, Undefined, Num(0), Str("Hi"), Num(1)),
   tThere   |-> Obj(Undefined, Undefined, Num(1), Str("there"), Num(9)),
   tEmpty   |-> Obj(Undefined, Undefined, Num(2), Str(""), Num(5)),
   tNeg     |-> Obj(Undefined, Undefined, Num(-1), Str("neg"), Num(5)),
   tBig     |-> Obj(Undefined, Undefined, Num(3), Str("big"), Num(15)),
   tNum     |-> Obj(Undefined, Undefined, Num(0), Num(5), Num(5)),
   unknown  |-> Obj(Undefined, Undefined, Undefined, Undefined, Undefined),
   errBoom  |-> Obj(Str("error"), Str("boom"), Undefined, Undefined, Undefined),
   errTok   |-> Obj(Str("error"), Str("boom2"), Num(0), Str("Hi"), Num(1)),
   errNoMsg |-> Obj(Str("error"), Undefined, Undefined, Undefined, Undefined),
   errEmpty |-> Obj(Str("error"), Str(""), Undefined, Undefined, Undefined)]

----------------------------------------------------------------------------
(* Text *)

NL == "\n"
Prefix == <<"d", "a", "t", "a", ":", " ">>

\* String.prototype.startsWith
StartsWith(s, p) == Len(s) >= Len(p) /\ SubSeq(s, 1, Len(p)) = p

\* String.prototype.substring(k): the text from index k (0-based) on
Substring(s, k) == SubSeq(s, k + 1, Len(s))

IsSpace(c) == c \in {NL, " "}

RECURSIVE TrimStart(_)
TrimStart(s) ==
  IF s # <<>> /\ IsSpace(Head(s)) THEN TrimStart(Tail(s)) ELSE s

RECURSIVE TrimEnd(_)
TrimEnd(s) ==
  IF s # <<>> /\ IsSpace(s[Len(s)]) THEN TrimEnd(SubSeq(s, 1, Len(s) - 1)) ELSE s

\* String.prototype.trim
Trim(s) == TrimEnd(TrimStart(s))

\* Index of the first "\n\n" in s at or after position i, 0 when there is none.
RECURSIVE IndexOfSep(_, _)
IndexOfSep(s, i) ==
  IF i + 1 > Len(s) THEN 0
  ELSE IF s[i] = NL /\ s[i + 1] = NL THEN i
  ELSE IndexOfSep(s, i + 1)

\* String.prototype.split('\n\n'): the pieces between the separators, the
\* last piece being what follows the last separator (possibly empty).
RECURSIVE Split(_)
Split(s) ==
  LET i == IndexOfSep(s, 1) IN
  IF i = 0 THEN <<s>>
  ELSE <<SubSeq(s, 1, i - 1)>> \o Split(SubSeq(s, i + 2, Len(s)))

\* TextDecoder.decode(bytes, {stream: true}) for UTF-8: an ASCII byte is its
\* character, the byte pair C3 A9 is the character U+00E9, a lead byte at the end
\* of the chunk is held back for the next call, and a byte that cannot be
\* decoded becomes the replacement character U+FFFD.
RECURSIVE DecodeBytes(_, _)
DecodeBytes(bytes, text) ==
  IF bytes = <<>> THEN [text |-> text, pending |-> <<>>]
  ELSE IF Head(bytes) = "C3" THEN
    IF Len(bytes) = 1 THEN [text |-> text, pending |-> bytes]
    ELSE IF bytes[2] = "A9" THEN DecodeBytes(Tail(Tail(bytes)), Append(text, "U+00E9"))
    ELSE DecodeBytes(Tail(bytes), Append(text, "U+FFFD"))
  ELSE IF Head(bytes) = "A9" THEN DecodeBytes(Tail(bytes), Append(text, "U+FFFD"))
  ELSE DecodeBytes(Tail(bytes), Append(text, Head(bytes)))

Decode(held, value) == DecodeBytes(held \o value, <<>>)

\* JSON.parse: the value of an object literal, null for the literal null, and
\* a SyntaxError for any other text of the model.
JsonParse(s) ==
  LET t == Trim(s) IN
  IF Len(t) = 3 /\ t[1] = "{" /\ t[3] = "}" /\ t[2] \in DOMAIN Objects
    THEN [kind |-> "object", v |-> Objects[t[2]]]
  ELSE IF t = <<"n", "u", "l", "l">>
    THEN [kind |-> "null", v |-> Objects["unknown"]]
  ELSE [kind |-> "throw", v |-> Objects["unknown"]]

----------------------------------------------------------------------------
(* The response body *)

NL2 == <<NL, NL>>
Json(name) == <<"{", name, "}">>
DataFrame(payload) == Prefix \o payload \o NL2

\* The frames the server can write: the object literals, and a data frame
\* whose payload is an unclosed brace followed by the character U+00E9.
BlockNames ==
  {"tHi", "tThere", "tEmpty", "tNeg", "tBig", "unknown", "errBoom", "badJson"}

\* A line that does not start with "data: " (an SSE comment), without its
\* line end.
CommentLine == <<":", "k">>

\* Frames of more than one line: the data line of tHi with a comment line
\* before it (cHi) or after it (hiC).
MultiLineBlocks == {"cHi", "hiC"}

\* A last frame the server did not terminate with "\n\n" before it closed
\* the connection: the data line of tHi (hiTail) or of errBoom (errTail).
TailBlocks == {"hiTail", "errTail"}

BlockBytes(b) ==
  CASE b = "badJson" -> DataFrame(<<"{", "C3", "A9">>)
    [] b = "hiTail" -> Prefix \o Json("tHi")
    [] b = "errTail" -> Prefix \o Json("errBoom")
    [] b = "cHi" -> CommentLine \o <<NL>> \o Prefix \o Json("tHi") \o NL2
    [] b = "hiC" -> Prefix \o Json("tHi") \o <<NL>> \o CommentLine \o NL2
    [] OTHER -> DataFrame(Json(b))

RECURSIVE Flatten(_)
Flatten(blocks) ==
  IF blocks = <<>> THEN <<>>
  ELSE BlockBytes(Head(blocks)) \o Flatten(Tail(blocks))

Scripts == UNION {[1..n -> BlockNames] : n \in 0..MaxFrames}

\* Bodies of Token Events and of Error Events with and without a message or
\* with the fields of a token, possibly ended by an unterminated frame.
EdgeBlockNames == {"tHi", "errBoom", "errTok", "errNoMsg", "errEmpty"}
EdgeScripts ==
  {sc \in UNION {[1..n -> EdgeBlockNames \cup TailBlocks] : n \in 0..MaxFrames} :
     \A i \in 1..(Len(sc) - 1) : sc[i] \notin TailBlocks}

\* Bodies with multi-line frames and with a token literal whose token is a
\* number.
FrameBlockNames == {"tHi", "tThere", "cHi", "hiC", "tNum", "unknown", "errBoom"}
FrameScripts == UNION {[1..n -> FrameBlockNames] : n \in 0..MaxFrames}

----------------------------------------------------------------------------
(* State *)

VARIABLES
  pc,             \* session -> where its async function stands: "idle" (not
                  \* started), "fetching" (await fetch), "reading" (await
                  \* reader.read()), "processing" (in the for loop), "done"
  aborted,        \* session -> abortController.signal.aborted
  buffer,         \* session -> the text kept between reads
  pending,        \* session -> bytes the TextDecoder holds back
  lines,          \* session -> the frames of the current chunk not yet handled
  inCallback,     \* session -> the loop is inside an onToken call
  wire,           \* session -> bytes of the body not yet read
  script,         \* session -> the frames the server writes
  frames,         \* session -> every frame the split has produced so far
  handled,        \* session -> frames the for loop has taken up so far
  calls,          \* session -> the callbacks invoked so far, in order
  outcome,        \* session -> "none", "completed", "failed", "aborted"
  abortCalls,     \* session -> calls of the returned abort function so far
  status,         \* AiSummarySection: 'idle' | 'loading' | 'success' | 'error'
  error,          \* AiSummarySection: the error message, or null
  summaryTokens,  \* AiSummarySection: the tokens rendered
  abortStreamRef, \* AiSummarySection: the session whose abort it holds, 0 for null
  dialogOpen,     \* AiSummarySection: the summary dialog is open
  relay,          \* Relay Tier: client -> the state of its client/upstream pair
  provider        \* BankDashboardProvider: its state and its client data loads

sessionVars == <<pc, aborted, buffer, pending, lines, inCallback, wire, script,
                 frames, handled, calls, outcome, abortCalls>>
uiVars == <<status, error, summaryTokens, abortStreamRef, dialogOpen>>
vars == <<sessionVars, uiVars, relay, provider>>

Null == [ty |-> "null", s |-> "", n |-> 0]

\* BankDashboardProvider after its first render and effects: no client is
\* selected, the lists are empty and no load has been started.
NoClient == "null"
ProviderInit ==
  [currentClientId |-> NoClient, documents |-> <<>>, messages |-> <<>>,
   isLoadingClientData |-> FALSE, effectPending |-> FALSE, loads |-> <<>>]

\* A client/upstream pair of the Relay Tier before the client's request.
RelayIdle ==
  [conn |-> "none", up |-> "idle", out |-> <<>>, elapsed |-> 0]

TokenCall(token) ==
  [cb |-> "onToken", text |-> token.text, riskScore |-> token.riskScore,
   message |-> Undefined]
ErrorCall(message) ==
  [cb |-> "onError", text |-> Undefined, riskScore |-> Undefined,
   message |-> message]
CompleteCall ==
  [cb |-> "onComplete", text |-> Undefined, riskScore |-> Undefined,
   message |-> Undefined]

----------------------------------------------------------------------------
(* The callbacks handleSummarize passes to streamAiSummary *)

\* AppendToken putting the new token first: [token, ...prev].
PrependToken(prev, token) == <<token>> \o prev

\* setSummaryTokens((prev) => [...prev, token])
AppendToken(prev, token) == Append(prev, token)

OnToken(s, token) ==
  /\ calls' = [calls EXCEPT ![s] = Append(@, TokenCall(token))]
  /\ summaryTokens' = AppendToken(summaryTokens, token)
  /\ UNCHANGED <<status, error, abortStreamRef, dialogOpen>>

OnError(s, message) ==
  /\ calls' = [calls EXCEPT ![s] = Append(@, ErrorCall(message))]
  /\ error' = message
  /\ status' = "error"
  /\ abortStreamRef' = 0
  /\ UNCHANGED <<summaryTokens, dialogOpen>>

\* OnComplete without abortStreamRef.current = null.
OnCompleteKeepsRef(s) ==
  /\ calls' = [calls EXCEPT ![s] = Append(@, CompleteCall)]
  /\ status' = "success"
  /\ UNCHANGED <<error, summaryTokens, abortStreamRef, dialogOpen>>

OnComplete(s) ==
  /\ calls' = [calls EXCEPT ![s] = Append(@, CompleteCall)]
  /\ status' = "success"
  /\ abortStreamRef' = 0
  /\ UNCHANGED <<error, summaryTokens, dialogOpen>>

----------------------------------------------------------------------------
(* streamAiSummary *)

\* HandleLine with the token test before the error test.
HandleLineTokenFirst(line) ==
  LET trimmed == Trim(line)
      none == [act |-> "skip", message |-> Undefined,
               token |-> [text |-> Undefined, riskScore |-> Undefined]]
  IN
  IF StartsWith(trimmed, Prefix) THEN
    LET dataStr == Substring(trimmed, 6)
        parsed == JsonParse(dataStr)
        data == parsed.v
    IN
    IF parsed.kind # "object" THEN [none EXCEPT !.act = "warn"]
    ELSE IF IsNumber(data.order) /\ Truthy(data.token)
            /\ IsNumber(data.hallucination_prob) THEN
      [none EXCEPT !.act = "token",
                   !.token = [text |-> data.token,
                              riskScore |-> data.hallucination_prob]]
    ELSE IF data.type = Str("error") THEN
      [none EXCEPT !.act = "error",
                   !.message = IF Truthy(data.message) THEN data.message
                               ELSE Str("Unknown error occurred")]
    ELSE none
  ELSE none

\* HandleLine passing data.message to onError as it is.
HandleLineNoDefault(line) ==
  LET trimmed == Trim(line)
      none == [act |-> "skip", message |-> Undefined,
               token |-> [text |-> Undefined, riskScore |-> Undefined]]
  IN
  IF StartsWith(trimmed, Prefix) THEN
    LET dataStr == Substring(trimmed, 6)
        parsed == JsonParse(dataStr)
        data == parsed.v
    IN
    IF parsed.kind # "object" THEN [none EXCEPT !.act = "warn"]
    ELSE IF data.type = Str("error") THEN
      [none EXCEPT !.act = "error",
                   !.message = data.message]
    ELSE IF IsNumber(data.order) /\ Truthy(data.token)
            /\ IsNumber(data.hallucination_prob) THEN
      [none EXCEPT !.act = "token",
                   !.token = [text |-> data.token,
                              riskScore |-> data.hallucination_prob]]
    ELSE none
  ELSE none

\* What the body of the for loop does with one frame:
\*   "skip"  the frame does not start with "data: ", or its JSON is neither
\*           an error nor a token
\*   "warn"  JSON.parse threw, or reading a property of null threw: the
\*           inner catch logs it
\*   "error" data.type === 'error'
\*   "token" the three token tests passed
HandleLine(line) ==
  LET trimmed == Trim(line)
      none == [act |-> "skip", message |-> Undefined,
               token |-> [text |-> Undefined, riskScore |-> Undefined]]
  IN
  IF StartsWith(trimmed, Prefix) THEN
    LET dataStr == Substring(trimmed, 6)
        parsed == JsonParse(dataStr)
        data == parsed.v
    IN
    IF parsed.kind # "object" THEN [none EXCEPT !.act = "warn"]
    ELSE IF data.type = Str("error") THEN
      [none EXCEPT !.act = "error",
                   !.message = IF Truthy(data.message) THEN data.message
                               ELSE Str("Unknown error occurred")]
    ELSE IF IsNumber(data.order) /\ Truthy(data.token)
            /\ IsNumber(data.hallucination_prob) THEN
      [none EXCEPT !.act = "token",
                   !.token = [text |-> data.token,
                              riskScore |-> data.hallucination_prob]]
    ELSE none
  ELSE none

\* SplitBuffer with the tail thrown away instead of kept for the next read.
SplitBufferDropsTail(text) ==
  LET pieces == Split(text) IN
  [lines |-> SubSeq(pieces, 1, Len(pieces) - 1), buffer |-> <<>>]

\* const lines = buffer.split('\n\n'); buffer = lines.pop() || ''
SplitBuffer(text) ==
  LET pieces == Split(text) IN
  [lines |-> SubSeq(pieces, 1, Len(pieces) - 1), buffer |-> pieces[Len(pieces)]]

AbortError == [isError |-> TRUE, name |-> "AbortError",
               message |-> Str("The user aborted a request.")]
NetworkError(text) == [isError |-> TRUE, name |-> "TypeError", message |-> Str(text)]
PlainError(text) == [isError |-> TRUE, name |-> "Error", message |-> Str(text)]

StatusTexts == {"Service Unavailable", "Not Found"}
StartFailure(statusText) ==
  IF statusText = "Not Found"
    THEN "Failed to start summary stream: Not Found"
    ELSE "Failed to start summary stream: Service Unavailable"

\* The async function returns: its locals (buffer, decoder, lines) are gone
\* and the connection is closed, so nothing more of the body is read.
Ends(s, result) ==
  /\ pc' = [pc EXCEPT ![s] = "done"]
  /\ outcome' = [outcome EXCEPT ![s] = result]
  /\ inCallback' = [inCallback EXCEPT ![s] = FALSE]
  /\ buffer' = [buffer EXCEPT ![s] = <<>>]
  /\ pending' = [pending EXCEPT ![s] = <<>>]
  /\ lines' = [lines EXCEPT ![s] = <<>>]
  /\ wire' = [wire EXCEPT ![s] = <<>>]

\* Catch without the test of error.name: every Error is reported.
CatchReportsAbort(s, err) ==
  IF err.isError
    THEN /\ OnError(s, err.message)
         /\ Ends(s, IF err.name = "AbortError" THEN "aborted" ELSE "failed")
    ELSE /\ OnError(s, Str("An unexpected error occurred"))
         /\ Ends(s, "failed")

\* Catch that only logs: no callback is made for any error.
CatchLogsOnly(s, err) ==
  /\ Ends(s, IF err.isError /\ err.name = "AbortError" THEN "aborted" ELSE "failed")
  /\ UNCHANGED <<calls, uiVars>>

\* The outer catch block.
Catch(s, err) ==
  IF err.isError THEN
    IF err.name = "AbortError"
      THEN /\ Ends(s, "aborted")
           /\ UNCHANGED <<calls, uiVars>>
      ELSE /\ OnError(s, err.message)
           /\ Ends(s, "failed")
  ELSE /\ OnError(s, Str("An unexpected error occurred"))
       /\ Ends(s, "failed")

\* fetch resolves with a 2xx response that has a body; the reader, the decoder
\* and the empty buffer are created.
FetchOk(s) ==
  /\ pc[s] = "fetching" /\ ~aborted[s]
  /\ pc' = [pc EXCEPT ![s] = "reading"]
  /\ buffer' = [buffer EXCEPT ![s] = <<>>]
  /\ pending' = [pending EXCEPT ![s] = <<>>]
  /\ UNCHANGED <<aborted, lines, inCallback, wire, script, relay, provider, frames, handled,
                 calls, outcome, abortCalls, uiVars>>

\* fetch resolves with a response that is not ok.
FetchNotOk(s) ==
  /\ pc[s] = "fetching" /\ ~aborted[s]
  /\ \E statusText \in StatusTexts : Catch(s, PlainError(StartFailure(statusText)))
  /\ UNCHANGED <<aborted, script, relay, provider, frames, handled, abortCalls>>

\* fetch resolves with an ok response whose body is null.
FetchNoBody(s) ==
  /\ pc[s] = "fetching" /\ ~aborted[s]
  /\ Catch(s, PlainError("Response body is null"))
  /\ UNCHANGED <<aborted, script, relay, provider, frames, handled, abortCalls>>

\* fetch rejects: the network failed.
FetchNetworkError(s) ==
  /\ pc[s] = "fetching" /\ ~aborted[s]
  /\ Catch(s, NetworkError("Failed to fetch"))
  /\ UNCHANGED <<aborted, script, relay, provider, frames, handled, abortCalls>>

\* fetch rejects because the signal was aborted.
FetchAborted(s) ==
  /\ pc[s] = "fetching" /\ aborted[s]
  /\ Catch(s, AbortError)
  /\ UNCHANGED <<aborted, script, relay, provider, frames, handled, abortCalls>>

\* reader.read() resolves with the next k bytes of the body: they are decoded
\* and appended to the buffer, the buffer is split, its tail is kept.
ReadChunk(s, k) ==
  /\ pc[s] = "reading" /\ ~aborted[s]
  /\ k \in 1..Len(wire[s])
  /\ LET value == SubSeq(wire[s], 1, k)
         decoded == Decode(pending[s], value)
         parts == SplitBuffer(buffer[s] \o decoded.text)
     IN
     /\ wire' = [wire EXCEPT ![s] = SubSeq(@, k + 1, Len(@))]
     /\ pending' = [pending EXCEPT ![s] = decoded.pending]
     /\ buffer' = [buffer EXCEPT ![s] = parts.buffer]
     /\ lines' = [lines EXCEPT ![s] = parts.lines]
     /\ frames' = [frames EXCEPT ![s] = @ \o parts.lines]
     /\ pc' = [pc EXCEPT ![s] = IF parts.lines = <<>> THEN "reading" ELSE "processing"]
  /\ inCallback' = [inCallback EXCEPT ![s] = FALSE]
  /\ UNCHANGED <<aborted, script, relay, provider, handled, calls, outcome, abortCalls, uiVars>>

\* ProcessLine without the return after onError: the loop goes on.
ProcessLineNoReturn(s) ==
  /\ pc[s] = "processing"
  /\ LET h == HandleLine(Head(lines[s]))
         rest == Tail(lines[s])
     IN
     /\ IF h.act = "error" THEN OnError(s, h.message)
        ELSE IF h.act = "token" THEN OnToken(s, h.token)
        ELSE UNCHANGED <<calls, uiVars>>
     /\ lines' = [lines EXCEPT ![s] = rest]
     /\ pc' = [pc EXCEPT ![s] = IF rest = <<>> THEN "reading" ELSE "processing"]
     /\ inCallback' = [inCallback EXCEPT ![s] = (h.act = "token" /\ rest # <<>>)]
     /\ UNCHANGED <<outcome, buffer, pending, wire>>
  /\ handled' = [handled EXCEPT ![s] = @ + 1]
  /\ UNCHANGED <<aborted, script, relay, provider, frames, abortCalls>>

\* One pass of the for loop over the frames of the chunk.
ProcessLine(s) ==
  /\ pc[s] = "processing"
  /\ LET h == HandleLine(Head(lines[s]))
         rest == Tail(lines[s])
     IN
     IF h.act = "error" THEN
       \* onError(...); reader.cancel(); return
       /\ OnError(s, h.message)
       /\ Ends(s, "failed")
     ELSE
       /\ IF h.act = "token" THEN OnToken(s, h.token)
                             ELSE UNCHANGED <<calls, uiVars>>
       /\ lines' = [lines EXCEPT ![s] = rest]
       /\ pc' = [pc EXCEPT ![s] = IF rest = <<>> THEN "reading" ELSE "processing"]
       /\ inCallback' = [inCallback EXCEPT ![s] = (h.act = "token" /\ rest # <<>>)]
       /\ UNCHANGED <<outcome, buffer, pending, wire>>
  /\ handled' = [handled EXCEPT ![s] = @ + 1]
  /\ UNCHANGED <<aborted, script, relay, provider, frames, abortCalls>>

\* ReadDone without the break after onComplete: the loop reads again.
ReadDoneNoBreak(s) ==
  /\ pc[s] = "reading" /\ ~aborted[s]
  /\ wire[s] = <<>>
  /\ Cardinality({i \in DOMAIN calls[s] : calls[s][i].cb = "onComplete"}) < 2
  /\ OnComplete(s)
  /\ UNCHANGED <<pc, outcome, inCallback, buffer, pending, lines, wire>>
  /\ UNCHANGED <<aborted, script, relay, provider, frames, handled, abortCalls>>

\* ReadDone without the onComplete() call: if (done) break.
ReadDoneSilent(s) ==
  /\ pc[s] = "reading" /\ ~aborted[s]
  /\ wire[s] = <<>>
  /\ Ends(s, "completed")
  /\ UNCHANGED <<calls, uiVars>>
  /\ UNCHANGED <<aborted, script, relay, provider, frames, handled, abortCalls>>

\* ReadDone that first takes up what is left in the buffer as a last frame.
ReadDoneFlushes(s) ==
  /\ pc[s] = "reading" /\ ~aborted[s]
  /\ wire[s] = <<>>
  /\ LET h == HandleLine(buffer[s]) IN
     IF h.act = "error" THEN
       /\ OnError(s, h.message)
       /\ Ends(s, "failed")
     ELSE IF h.act = "token" THEN
       /\ calls' = [calls EXCEPT ![s] = Append(Append(@, TokenCall(h.token)), CompleteCall)]
       /\ summaryTokens' = AppendToken(summaryTokens, h.token)
       /\ status' = "success"
       /\ abortStreamRef' = 0
       /\ UNCHANGED <<error, dialogOpen>>
       /\ Ends(s, "completed")
     ELSE
       /\ OnComplete(s)
       /\ Ends(s, "completed")
  /\ UNCHANGED <<aborted, script, relay, provider, frames, handled, abortCalls>>

\* reader.read() resolves with done: the server closed the body.
ReadDone(s) ==
  /\ pc[s] = "reading" /\ ~aborted[s]
  /\ wire[s] = <<>>
  /\ OnComplete(s)
  /\ Ends(s, "completed")
  /\ UNCHANGED <<aborted, script, relay, provider, frames, handled, abortCalls>>

\* ReadNetworkError taking a failed read for the end of the body.
ReadNetworkErrorAsDone(s) ==
  /\ pc[s] = "reading" /\ ~aborted[s]
  /\ OnComplete(s)
  /\ Ends(s, "completed")
  /\ UNCHANGED <<aborted, script, relay, provider, frames, handled, abortCalls>>

\* reader.read() rejects: the connection broke.
ReadNetworkError(s) ==
  /\ pc[s] = "reading" /\ ~aborted[s]
  /\ Catch(s, NetworkError("network error"))
  /\ UNCHANGED <<aborted, script, relay, provider, frames, handled, abortCalls>>

\* reader.read() rejects because the signal was aborted.
ReadAborted(s) ==
  /\ pc[s] = "reading" /\ aborted[s]
  /\ Catch(s, AbortError)
  /\ UNCHANGED <<aborted, script, relay, provider, frames, handled, abortCalls>>

\* AbortFn that also reports the abort through onError, on every call.
AbortFnReports(s) ==
  /\ aborted' = [aborted EXCEPT ![s] = TRUE]
  /\ OnError(s, Str("Stream aborted"))
  /\ UNCHANGED <<pc, buffer, pending, lines, inCallback, wire, script, relay, provider, frames,
                 handled, outcome>>

\* AbortFn on an AbortController shared by all calls of streamAiSummary.
AbortFnShared(s) ==
  /\ aborted' = [t \in Sessions |-> TRUE]
  /\ UNCHANGED <<pc, buffer, pending, lines, inCallback, wire, script, relay, provider, frames,
                 handled, calls, outcome, uiVars>>

\* The function streamAiSummary returns: abortController.abort().
AbortFn(s) ==
  /\ aborted' = [aborted EXCEPT ![s] = TRUE]
  /\ UNCHANGED <<pc, buffer, pending, lines, inCallback, wire, script, relay, provider, frames,
                 handled, calls, outcome, uiVars>>

\* The caller invokes the returned function: from its own code while the
\* session awaits or after it ended, or from inside an onToken call.
Abort(s) ==
  /\ pc[s] # "idle"
  /\ pc[s] = "processing" => inCallback[s]
  /\ abortCalls[s] < MaxAborts
  /\ abortCalls' = [abortCalls EXCEPT ![s] = @ + 1]
  /\ AbortFn(s)

----------------------------------------------------------------------------
(* One streamAiSummary call by handleSummarize on a fresh component *)

StartOne(scripts) ==
  /\ \E sc \in scripts :
       /\ script = [s \in Sessions |-> IF s = 1 THEN sc ELSE <<>>]
       /\ wire = [s \in Sessions |-> IF s = 1 THEN Flatten(sc) ELSE <<>>]
  /\ pc = [s \in Sessions |-> IF s = 1 THEN "fetching" ELSE "idle"]
  /\ aborted = [s \in Sessions |-> FALSE]
  /\ buffer = [s \in Sessions |-> <<>>]
  /\ pending = [s \in Sessions |-> <<>>]
  /\ lines = [s \in Sessions |-> <<>>]
  /\ inCallback = [s \in Sessions |-> FALSE]
  /\ frames = [s \in Sessions |-> <<>>]
  /\ handled = [s \in Sessions |-> 0]
  /\ calls = [s \in Sessions |-> <<>>]
  /\ outcome = [s \in Sessions |-> "none"]
  /\ abortCalls = [s \in Sessions |-> 0]
  /\ status = "loading"
  /\ error = Null
  /\ summaryTokens = <<>>
  /\ abortStreamRef = 1
  /\ dialogOpen = TRUE
  /\ relay = [c \in Sessions |-> RelayIdle]
  /\ provider = ProviderInit

Init == StartOne(Scripts)

Next ==
  \E s \in Sessions :
    \/ FetchOk(s)
    \/ FetchNotOk(s)
    \/ FetchNoBody(s)
    \/ FetchNetworkError(s)
    \/ FetchAborted(s)
    \/ \E k \in 1..Len(wire[s]) : ReadChunk(s, k)
    \/ ProcessLine(s)
    \/ ReadDone(s)
    \/ ReadNetworkError(s)
    \/ ReadAborted(s)
    \/ Abort(s)

Spec == Init /\ [][Next]_vars

\* Two calls of streamAiSummary made one after the other with the same
\* callbacks, before either response has arrived: each has its own body, the
\* first of Token Events "Hi", the second of Token Events "there" and Error
\* Events.
PairSessions == {1, 2}
PairScripts(s) ==
  UNION {[1..n -> IF s = 1 THEN {"tHi"} ELSE {"tThere", "errBoom"}] : n \in 0..PairFrames}

InitPair ==
  /\ \E sc1 \in PairScripts(1), sc2 \in PairScripts(2) :
       script = [s \in Sessions |-> IF s = 1 THEN sc1 ELSE IF s = 2 THEN sc2 ELSE <<>>]
  /\ wire = [s \in Sessions |-> Flatten(script[s])]
  /\ pc = [s \in Sessions |-> IF s \in PairSessions THEN "fetching" ELSE "idle"]
  /\ aborted = [s \in Sessions |-> FALSE]
  /\ buffer = [s \in Sessions |-> <<>>]
  /\ pending = [s \in Sessions |-> <<>>]
  /\ lines = [s \in Sessions |-> <<>>]
  /\ inCallback = [s \in Sessions |-> FALSE]
  /\ frames = [s \in Sessions |-> <<>>]
  /\ handled = [s \in Sessions |-> 0]
  /\ calls = [s \in Sessions |-> <<>>]
  /\ outcome = [s \in Sessions |-> "none"]
  /\ abortCalls = [s \in Sessions |-> 0]
  /\ status = "loading"
  /\ error = Null
  /\ summaryTokens = <<>>
  /\ abortStreamRef = 2
  /\ dialogOpen = TRUE
  /\ relay = [c \in Sessions |-> RelayIdle]
  /\ provider = ProviderInit

\* The sizes of the chunks a read gives when two sessions run side by side:
\* up to the end of the "data: " prefix of the next frame, or up to the end
\* of a frame.
PairCuts(s) ==
  {k \in 1..Len(wire[s]) :
     \/ wire[s][k] = " "
     \/ k > 1 /\ wire[s][k] = NL /\ wire[s][k - 1] = NL}

NextPair ==
  \E s \in Sessions :
    \/ FetchOk(s)
    \/ FetchNotOk(s)
    \/ FetchNoBody(s)
    \/ FetchNetworkError(s)
    \/ FetchAborted(s)
    \/ \E k \in PairCuts(s) : ReadChunk(s, k)
    \/ ProcessLine(s)
    \/ ReadDone(s)
    \/ ReadNetworkError(s)
    \/ ReadAborted(s)
    \/ Abort(s)

SpecPair == InitPair /\ [][NextPair]_vars

----------------------------------------------------------------------------
(* AiSummarySection: the Summarize button and the summary dialog *)

\* The bodies served to the component: Token Events, ended by the close of
\* the connection or by an Error Event (nothing after one is ever read).
UiScripts ==
  {sc \in UNION {[1..n -> {"tHi", "errBoom"}] : n \in 0..PairFrames} :
     \A i \in 1..(Len(sc) - 1) : sc[i] = "tHi"}

\* A click handler runs as a task of its own: never while a session is inside
\* the loop over the frames of a chunk.
BetweenTasks == \A s \in Sessions : pc[s] # "processing"

\* The session the next streamAiSummary call makes.
NextSession == CHOOSE n \in Sessions : pc[n] = "idle" /\ \A m \in 1..(n - 1) : pc[m] # "idle"

\* HandleSummarize without the cancellation of the ongoing stream.
HandleSummarizeNoCancel ==
  /\ BetweenTasks
  /\ \E n \in Sessions : pc[n] = "idle"
  /\ UNCHANGED <<aborted, abortCalls>>
  /\ dialogOpen' = TRUE
  /\ status' = "loading"
  /\ error' = Null
  /\ summaryTokens' = <<>>
  /\ \E sc \in UiScripts :
       /\ script' = [script EXCEPT ![NextSession] = sc]
       /\ wire' = [wire EXCEPT ![NextSession] = Flatten(sc)]
  /\ pc' = [pc EXCEPT ![NextSession] = "fetching"]
  /\ abortStreamRef' = NextSession
  /\ UNCHANGED <<buffer, pending, lines, inCallback, frames, handled, calls,
                 outcome, relay, provider>>

\* HandleSummarize without setSummaryTokens([]).
HandleSummarizeKeepsTokens ==
  /\ BetweenTasks
  /\ \E n \in Sessions : pc[n] = "idle"
  /\ IF abortStreamRef # 0
       THEN /\ aborted' = [aborted EXCEPT ![abortStreamRef] = TRUE]
            /\ abortCalls' = [abortCalls EXCEPT ![abortStreamRef] = @ + 1]
       ELSE UNCHANGED <<aborted, abortCalls>>
  /\ dialogOpen' = TRUE
  /\ status' = "loading"
  /\ error' = Null
  /\ UNCHANGED summaryTokens
  /\ \E sc \in UiScripts :
       /\ script' = [script EXCEPT ![NextSession] = sc]
       /\ wire' = [wire EXCEPT ![NextSession] = Flatten(sc)]
  /\ pc' = [pc EXCEPT ![NextSession] = "fetching"]
  /\ abortStreamRef' = NextSession
  /\ UNCHANGED <<buffer, pending, lines, inCallback, frames, handled, calls,
                 outcome, relay, provider>>

\* handleSummarize: cancel the ongoing stream, open the dialog, reset the
\* state, start a stream and keep its abort function.
HandleSummarize ==
  /\ BetweenTasks
  /\ \E n \in Sessions : pc[n] = "idle"
  /\ IF abortStreamRef # 0
       THEN /\ aborted' = [aborted EXCEPT ![abortStreamRef] = TRUE]
            /\ abortCalls' = [abortCalls EXCEPT ![abortStreamRef] = @ + 1]
       ELSE UNCHANGED <<aborted, abortCalls>>
  /\ dialogOpen' = TRUE
  /\ status' = "loading"
  /\ error' = Null
  /\ summaryTokens' = <<>>
  /\ \E sc \in UiScripts :
       /\ script' = [script EXCEPT ![NextSession] = sc]
       /\ wire' = [wire EXCEPT ![NextSession] = Flatten(sc)]
  /\ pc' = [pc EXCEPT ![NextSession] = "fetching"]
  /\ abortStreamRef' = NextSession
  /\ UNCHANGED <<buffer, pending, lines, inCallback, frames, handled, calls,
                 outcome, relay, provider>>

\* DialogOnOpenChange that forgets the stream without calling its abort
\* function.
DialogOnOpenChangeNoAbort ==
  /\ BetweenTasks
  /\ dialogOpen
  /\ IF abortStreamRef # 0 /\ status = "loading"
       THEN /\ abortStreamRef' = 0
            /\ status' = "idle"
       ELSE UNCHANGED <<abortStreamRef, status>>
  /\ dialogOpen' = FALSE
  /\ UNCHANGED <<aborted, abortCalls>>
  /\ UNCHANGED <<pc, buffer, pending, lines, inCallback, wire, script, frames,
                 handled, calls, outcome, error, summaryTokens, relay, provider>>

\* The dialog's onOpenChange(false): the user closes the dialog.
DialogOnOpenChange ==
  /\ BetweenTasks
  /\ dialogOpen
  /\ IF abortStreamRef # 0 /\ status = "loading"
       THEN /\ aborted' = [aborted EXCEPT ![abortStreamRef] = TRUE]
            /\ abortCalls' = [abortCalls EXCEPT ![abortStreamRef] = @ + 1]
            /\ abortStreamRef' = 0
            /\ status' = "idle"
       ELSE UNCHANGED <<aborted, abortCalls, abortStreamRef, status>>
  /\ dialogOpen' = FALSE
  /\ UNCHANGED <<pc, buffer, pending, lines, inCallback, wire, script, frames,
                 handled, calls, outcome, error, summaryTokens, relay, provider>>

\* The sizes of the chunks a read gives under the component: up to the end
\* of a frame.
UiCuts(s) ==
  {k \in 2..Len(wire[s]) : wire[s][k] = NL /\ wire[s][k - 1] = NL}

\* The component as mounted: no stream yet.
InitUi ==
  /\ script = [s \in Sessions |-> <<>>]
  /\ wire = [s \in Sessions |-> <<>>]
  /\ pc = [s \in Sessions |-> "idle"]
  /\ aborted = [s \in Sessions |-> FALSE]
  /\ buffer = [s \in Sessions |-> <<>>]
  /\ pending = [s \in Sessions |-> <<>>]
  /\ lines = [s \in Sessions |-> <<>>]
  /\ inCallback = [s \in Sessions |-> FALSE]
  /\ frames = [s \in Sessions |-> <<>>]
  /\ handled = [s \in Sessions |-> 0]
  /\ calls = [s \in Sessions |-> <<>>]
  /\ outcome = [s \in Sessions |-> "none"]
  /\ abortCalls = [s \in Sessions |-> 0]
  /\ status = "idle"
  /\ error = Null
  /\ summaryTokens = <<>>
  /\ abortStreamRef = 0
  /\ dialogOpen = FALSE
  /\ relay = [c \in Sessions |-> RelayIdle]
  /\ provider = ProviderInit

NextUi ==
  \/ HandleSummarize
  \/ DialogOnOpenChange
  \/ \E s \in Sessions :
       \/ FetchOk(s)
       \/ FetchNotOk(s)
       \/ FetchNoBody(s)
       \/ FetchNetworkError(s)
       \/ FetchAborted(s)
       \/ \E k \in UiCuts(s) : ReadChunk(s, k)
       \/ ProcessLine(s)
       \/ ReadDone(s)
       \/ ReadNetworkError(s)
       \/ ReadAborted(s)

SpecUi == InitUi /\ [][NextUi]_vars

----------------------------------------------------------------------------
(* Relay Tier: one upstream Stream Session per client stream.              *)
(* relay[c].conn  "none" | "open" | "gone" (client left) | "closed"        *)
(* relay[c].up    "idle" | "streaming" | "completed" | "failed" | "aborted"*)
(* relay[c].out   the frames written to the client: "token", "error",      *)
(*                "timeout" (the synthetic Error Event)                    *)
(* relay[c].elapsed  ticks since the upstream session was opened           *)

RelayTokens(c) == Len(SelectSeq(relay[c].out, LAMBDA f : f = "token"))

RelayUnchanged == UNCHANGED <<sessionVars, uiVars, provider>>

\* An inbound summarize request: the upstream session is opened.
RelayRequest(c) ==
  /\ relay[c].conn = "none"
  /\ relay' = [relay EXCEPT ![c] = [@ EXCEPT !.conn = "open", !.up = "streaming"]]
  /\ RelayUnchanged

\* A Token is decoded upstream: it is re-serialized and flushed to the client.
RelayToken(c) ==
  /\ relay[c].up = "streaming" /\ relay[c].conn = "open"
  /\ RelayTokens(c) < MaxFrames
  /\ relay' = [relay EXCEPT ![c].out = Append(@, "token")]
  /\ RelayUnchanged

\* RelayUpstreamFailed closing the client stream without an Error Event.
RelayUpstreamFailedSilent(c) ==
  /\ relay[c].up = "streaming" /\ relay[c].conn = "open"
  /\ relay' = [relay EXCEPT ![c] = [@ EXCEPT !.up = "failed", !.conn = "closed"]]
  /\ RelayUnchanged

\* The upstream session ends in Failed: one Error Event, then close.
RelayUpstreamFailed(c) ==
  /\ relay[c].up = "streaming" /\ relay[c].conn = "open"
  /\ relay' = [relay EXCEPT ![c] = [@ EXCEPT !.up = "failed", !.conn = "closed",
                                                !.out = Append(@, "error")]]
  /\ RelayUnchanged

\* The upstream session ends in Completed: clean close.
RelayUpstreamCompleted(c) ==
  /\ relay[c].up = "streaming" /\ relay[c].conn = "open"
  /\ relay' = [relay EXCEPT ![c] = [@ EXCEPT !.up = "completed", !.conn = "closed"]]
  /\ RelayUnchanged

\* RelayClientDisconnect aborting every upstream session that is streaming.
RelayClientDisconnectAll(c) ==
  /\ relay[c].conn = "open"
  /\ relay' = [d \in Sessions |->
                 IF d = c THEN [relay[d] EXCEPT !.conn = "gone", !.up = "aborted"]
                 ELSE IF relay[d].up = "streaming" THEN [relay[d] EXCEPT !.up = "aborted"]
                 ELSE relay[d]]
  /\ RelayUnchanged

\* The client disconnects (or aborts its stream): the upstream session paired
\* with it is aborted.
RelayClientDisconnect(c) ==
  /\ relay[c].conn = "open"
  /\ relay' = [relay EXCEPT ![c] = [@ EXCEPT !.conn = "gone", !.up = "aborted"]]
  /\ RelayUnchanged

\* Time passes for an upstream session within its budget.
RelayTick(c) ==
  /\ relay[c].up = "streaming"
  /\ relay[c].elapsed < TimeoutBudget
  /\ relay' = [relay EXCEPT ![c].elapsed = @ + 1]
  /\ RelayUnchanged

\* RelayTimeout that emits the timeout Error Event and leaves the upstream
\* session running.
RelayTimeoutNoAbort(c) ==
  /\ relay[c].up = "streaming" /\ relay[c].conn = "open"
  /\ relay[c].elapsed = TimeoutBudget
  /\ "timeout" \notin {relay[c].out[i] : i \in DOMAIN relay[c].out}
  /\ relay' = [relay EXCEPT ![c].out = Append(@, "timeout")]
  /\ RelayUnchanged

\* The budget is used up: the upstream session is aborted and a timeout Error
\* Event is written to the client, then the stream is closed.
RelayTimeout(c) ==
  /\ relay[c].up = "streaming" /\ relay[c].conn = "open"
  /\ relay[c].elapsed = TimeoutBudget
  /\ relay' = [relay EXCEPT ![c] = [@ EXCEPT !.up = "aborted", !.conn = "closed",
                                                !.out = Append(@, "timeout")]]
  /\ RelayUnchanged

InitRelay == InitUi

NextRelay ==
  \E c \in Sessions :
    \/ RelayRequest(c)
    \/ RelayToken(c)
    \/ RelayUpstreamFailed(c)
    \/ RelayUpstreamCompleted(c)
    \/ RelayClientDisconnect(c)
    \/ RelayTick(c)
    \/ RelayTimeout(c)

SpecRelay == InitRelay /\ [][NextRelay]_vars

----------------------------------------------------------------------------
(* BankDashboardProvider: the effect that loads the selected client's data *)

Clients == {"A", "B"}

\* What request i answers for the documents and the messages of a client.
Documents(i, id) == <<[kind |-> "document", customer_id |-> id, request |-> i]>>
Messages(i, id) == <<[kind |-> "message", customer_id |-> id, request |-> i]>>

ProviderUnchanged == UNCHANGED <<sessionVars, uiVars, relay>>

\* Promise.all of the two fetches of load l is fulfilled, or rejected.
Fulfilled(l) == l.docs = "ok" /\ l.msgs = "ok"
Rejected(l) == l.docs = "failed" \/ l.msgs = "failed"

\* setCurrentClientIdState(id) is rendered: the selection changes and the
\* effect of the new selection is due.
SetCurrentClientId(id) ==
  /\ ~provider.effectPending
  /\ id # provider.currentClientId
  /\ Len(provider.loads) < MaxLoads
  /\ provider' = [provider EXCEPT !.currentClientId = id, !.effectPending = TRUE]
  /\ ProviderUnchanged

\* The cleanup of the previous run of the effect (cancelled = true), then the
\* effect for the new selection: loadClientData() up to its await.
ClientDataEffect ==
  /\ provider.effectPending
  /\ LET n == Len(provider.loads)
         cleaned == [i \in 1..n |->
                       IF i = n THEN [provider.loads[i] EXCEPT !.cancelled = TRUE]
                                ELSE provider.loads[i]]
         load == [clientId |-> provider.currentClientId, cancelled |-> FALSE,
                  docs |-> "pending", msgs |-> "pending", phase |-> "awaiting"]
     IN provider' = [provider EXCEPT !.loads = Append(cleaned, load),
                                     !.isLoadingClientData = TRUE,
                                     !.effectPending = FALSE]
  /\ ProviderUnchanged

\* fetchCustomerDocuments of load i returns the documents, or throws.
FetchCustomerDocumentsSettles(i, ok) ==
  /\ i \in DOMAIN provider.loads
  /\ provider.loads[i].docs = "pending"
  /\ provider' = [provider EXCEPT !.loads[i].docs = IF ok THEN "ok" ELSE "failed"]
  /\ ProviderUnchanged

\* fetchCustomerMessages of load i returns the messages, or throws.
FetchCustomerMessagesSettles(i, ok) ==
  /\ i \in DOMAIN provider.loads
  /\ provider.loads[i].msgs = "pending"
  /\ provider' = [provider EXCEPT !.loads[i].msgs = IF ok THEN "ok" ELSE "failed"]
  /\ ProviderUnchanged

\* LoadClientDataResumes without the tests of cancelled.
LoadClientDataResumesIgnoresCancelled(i) ==
  /\ i \in DOMAIN provider.loads
  /\ LET l == provider.loads[i] IN
     /\ l.phase = "awaiting"
     /\ Fulfilled(l) \/ Rejected(l)
     /\ provider' =
          [provider EXCEPT
             !.loads[i].phase = "returned",
             !.documents = IF Rejected(l) THEN <<>> ELSE Documents(i, l.clientId),
             !.messages = IF Rejected(l) THEN <<>> ELSE Messages(i, l.clientId),
             !.isLoadingClientData = FALSE]
  /\ ProviderUnchanged

\* loadClientData of load i goes on after await fetchCustomerData(clientId):
\* the try branch when the promise is fulfilled, the catch branch when it is
\* rejected, then finally.
LoadClientDataResumes(i) ==
  /\ i \in DOMAIN provider.loads
  /\ LET l == provider.loads[i] IN
     /\ l.phase = "awaiting"
     /\ Fulfilled(l) \/ Rejected(l)
     /\ provider' =
          IF l.cancelled
            THEN [provider EXCEPT !.loads[i].phase = "returned"]
            ELSE [provider EXCEPT
                    !.loads[i].phase = "returned",
                    !.documents = IF Rejected(l) THEN <<>>
                                  ELSE Documents(i, l.clientId),
                    !.messages = IF Rejected(l) THEN <<>>
                                 ELSE Messages(i, l.clientId),
                    !.isLoadingClientData = FALSE]
  /\ ProviderUnchanged

InitProvider == InitUi

NextProvider ==
  \/ \E id \in Clients : SetCurrentClientId(id)
  \/ ClientDataEffect
  \/ \E i \in 1..MaxLoads, ok \in BOOLEAN : FetchCustomerDocumentsSettles(i, ok)
  \/ \E i \in 1..MaxLoads, ok \in BOOLEAN : FetchCustomerMessagesSettles(i, ok)
  \/ \E i \in 1..MaxLoads : LoadClientDataResumes(i)

SpecProvider == InitProvider /\ [][NextProvider]_vars

----------------------------------------------------------------------------

\* The same call on a body drawn from EdgeScripts.
InitEdge == StartOne(EdgeScripts)
SpecEdge == InitEdge /\ [][Next]_vars

\* The same call on a body drawn from FrameScripts.
InitFrames == StartOne(FrameScripts)
SpecFrames == InitFrames /\ [][Next]_vars

----------------------------------------------------------------------------
(* Vocabulary of the properties *)

IsToken(c) == c.cb = "onToken"
IsTerminal(c) == c.cb \in {"onError", "onComplete"}

\* The tokens a sequence of callbacks delivered, in order.
TokensOf(cs) ==
  LET ts == SelectSeq(cs, IsToken) IN
  [i \in 1..Len(ts) |-> [text |-> ts[i].text, riskScore |-> ts[i].riskScore]]

\* Terminal notifications of a session: onComplete and onError calls, and the
\* silent end of an aborted session.
TerminalCount(s) ==
  Cardinality({i \in DOMAIN calls[s] : IsTerminal(calls[s][i])})
    + (IF outcome[s] = "aborted" THEN 1 ELSE 0)

\* The bytes of the body read so far by a session that is still reading.
Delivered(s) ==
  LET all == Flatten(script[s]) IN SubSeq(all, 1, Len(all) - Len(wire[s]))

\* The wire contract: which object literals are Token Events and Error Events.
IsTokenEvent(o) ==
  /\ o.order.ty = "number" /\ o.order.n >= 0
  /\ o.token.ty = "string"
  /\ o.hallucination_prob.ty = "number"
  /\ o.hallucination_prob.n >= 0 /\ o.hallucination_prob.n <= 10
IsErrorEvent(o) == o.type = Str("error")

JsonBlocks == BlockNames \cap DOMAIN Objects
TokenBlocks == {b \in JsonBlocks : IsTokenEvent(Objects[b])}
ErrorBlocks == {b \in JsonBlocks : IsErrorEvent(Objects[b])}
\* Token-shaped literals whose order or probability is out of range.
OutOfRangeBlocks ==
  {b \in JsonBlocks :
     /\ Objects[b].order.ty = "number" /\ Objects[b].token.ty = "string"
     /\ Objects[b].hallucination_prob.ty = "number"
     /\ ~IsTokenEvent(Objects[b])}
\* Data frames whose payload is not JSON.
MalformedBlocks == {"badJson"}

TokenOfBlock(b) ==
  [text |-> Objects[b].token, riskScore |-> Objects[b].hallucination_prob]

\* Index of the first Error Event frame of a body, 0 when it has none.
FirstError(sc) ==
  IF \E i \in DOMAIN sc : sc[i] \in ErrorBlocks
    THEN CHOOSE i \in DOMAIN sc :
           /\ sc[i] \in ErrorBlocks
           /\ \A j \in 1..(i - 1) : sc[j] \notin ErrorBlocks
    ELSE 0

----------------------------------------------------------------------------
(* Properties *)

\* C1: a session gives at most one terminal notification among onComplete,
\* onError and the silent aborted end; it has given exactly one when its
\* async function has returned and none before; and a session that has not
\* given it yet is never stuck: the for loop always has a frame to take up,
\* and when the body has ended or the signal was aborted the step that ends
\* the session is enabled.
C1_ExactlyOneTerminal ==
  \A s \in Sessions :
    /\ TerminalCount(s) <= 1
    /\ (pc[s] = "done") <=> (TerminalCount(s) = 1)
    /\ (outcome[s] # "none") <=> (TerminalCount(s) = 1)
    /\ pc[s] = "processing" => lines[s] # <<>>
    /\ (pc[s] = "fetching" /\ aborted[s]) => ENABLED FetchAborted(s)
    /\ (pc[s] = "reading" /\ aborted[s]) => ENABLED ReadAborted(s)
    /\ (pc[s] = "reading" /\ ~aborted[s] /\ wire[s] = <<>>) => ENABLED ReadDone(s)

\* A session that was aborted after it had delivered a token has ended
\* silently.
C1_Witness ==
  \E s \in Sessions :
    /\ outcome[s] = "aborted" /\ calls[s] # <<>> /\ TerminalCount(s) = 1

\* Feeding the bytes read so far as one chunk.
OneChunk(bytes) == SplitBuffer(Decode(<<>>, bytes).text)

\* C2: however the body is cut into chunks, the frames the split loop has
\* produced and the tail it keeps are those of feeding the bytes read so far
\* as one chunk; for a body of N well-formed frames read to its end these are
\* its N frames in order, with an empty tail.
C2_ChunkBoundaryInvariance ==
  \A s \in Sessions :
    pc[s] \in {"reading", "processing"} =>
      /\ frames[s] = OneChunk(Delivered(s)).lines
      /\ buffer[s] = OneChunk(Delivered(s)).buffer
      /\ handled[s] + Len(lines[s]) = Len(frames[s])
      /\ wire[s] = <<>> =>
           /\ Len(frames[s]) = Len(script[s])
           /\ buffer[s] = <<>>
           /\ \A i \in DOMAIN script[s] :
                frames[s][i] \o NL2 = Decode(<<>>, BlockBytes(script[s][i])).text

\* A chunk ended between the two newlines of a delimiter, after a frame had
\* already been cut out; or inside a two-byte character.
C2_Witness ==
  \E s \in Sessions :
    /\ pc[s] = "reading" /\ frames[s] # <<>>
    /\ buffer[s] # <<>> /\ buffer[s][Len(buffer[s])] = NL
    /\ wire[s] # <<>>

\* C3: the loop never goes past an Error Event frame: when the first such
\* frame is taken up onError is called with its message and the function
\* returns, so onError is the session's last callback, the tokens delivered
\* are those of earlier frames, and onComplete is not called.
C3_ErrorShortCircuit ==
  \A s \in Sessions :
    LET k == FirstError(script[s]) IN
    k # 0 =>
      /\ handled[s] <= k
      /\ \A i \in DOMAIN calls[s] :
           /\ calls[s][i].cb # "onComplete"
           /\ calls[s][i].cb = "onError" => i = Len(calls[s])
      /\ Len(TokensOf(calls[s])) <= k - 1
      /\ handled[s] = k =>
           /\ pc[s] = "done" /\ outcome[s] = "failed"
           /\ calls[s] # <<>>
           /\ calls[s][Len(calls[s])] = ErrorCall(Objects[script[s][k]].message)

\* An Error Event frame and a Token Event frame after it had both been cut
\* out of the same chunk: the session failed at the first and never took up
\* the second.
C3_Witness ==
  \E s \in Sessions :
    /\ pc[s] = "done" /\ outcome[s] = "failed"
    /\ Len(frames[s]) = 2 /\ handled[s] = 1
    /\ script[s] = <<"errBoom", "tHi">>
    /\ calls[s] = <<ErrorCall(Str("boom"))>>

\* C4: once abort() has been called on a session, no further onToken call is
\* made for it (a call during which abort() was invoked is already in the
\* record when abort() returns).
C4_NoTokenAfterAbort ==
  [][\A s \in Sessions :
       aborted[s] => TokensOf(calls'[s]) = TokensOf(calls[s])]_vars

\* C5: from a session whose signal is aborted while it awaits fetch or a read,
\* the only way on is the silent aborted end: no callback is made and the
\* component's status and error stay as they are; an aborted session has no
\* onError and no onComplete call, and stays aborted.
C5_AbortIsNotAnError ==
  [][\A s \in Sessions :
       /\ (aborted[s] /\ pc[s] \in {"fetching", "reading"}) =>
            /\ calls'[s] = calls[s]
            /\ status' = status /\ error' = error
            /\ \/ pc'[s] = pc[s] /\ outcome'[s] = outcome[s]
               \/ pc'[s] = "done" /\ outcome'[s] = "aborted"
       /\ outcome[s] = "aborted" =>
            /\ \A i \in DOMAIN calls[s] : ~IsTerminal(calls[s][i])
            /\ outcome'[s] = "aborted" /\ calls'[s] = calls[s]]_vars

\* abort() was called while a read was pending after a token had been
\* delivered: the session ended aborted and the component still shows loading.
C5_Witness ==
  \E s \in Sessions :
    /\ outcome[s] = "aborted" /\ abortCalls[s] = 1
    /\ Len(frames[s]) < Len(script[s]) /\ Len(calls[s]) = 1
    /\ status = "loading" /\ error = Null

\* C6: a call of the abort function on a session already aborted or already
\* ended changes nothing but the aborted flag (no callback, no outcome, no
\* component state), and whatever is called after a session has ended, its
\* callbacks and its outcome stay as they are.
C6_IdempotentAbort ==
  [][\A s \in Sessions :
       /\ (abortCalls'[s] # abortCalls[s] /\ (aborted[s] \/ pc[s] = "done")) =>
            /\ aborted'[s]
            /\ pc'[s] = pc[s] /\ calls'[s] = calls[s] /\ outcome'[s] = outcome[s]
            /\ lines'[s] = lines[s] /\ buffer'[s] = buffer[s] /\ wire'[s] = wire[s]
            /\ handled'[s] = handled[s]
            /\ UNCHANGED uiVars
       /\ pc[s] = "done" =>
            /\ pc'[s] = "done" /\ calls'[s] = calls[s] /\ outcome'[s] = outcome[s]
            /\ UNCHANGED uiVars]_vars

\* The abort function was called twice after the session had completed.
C6_Witness ==
  \E s \in Sessions :
    /\ abortCalls[s] = 2 /\ outcome[s] = "completed" /\ aborted[s]
    /\ status = "success"

IsTokenBlock(b) == b \in TokenBlocks

\* The Tokens of the Token Event frames of a body, in the order of the frames.
ExpectedTokens(sc) ==
  LET ts == SelectSeq(sc, IsTokenBlock) IN
  [i \in 1..Len(ts) |-> TokenOfBlock(ts[i])]

\* The messages of the errors the transport raises (not those of frames).
TransportMessages ==
  {Str("Failed to fetch"), Str("network error"), Str("Response body is null")}
    \cup {Str(StartFailure(st)) : st \in StatusTexts}

\* C7: for a body made of Token Event frames and frames whose payload is not
\* JSON, no frame triggers onError, and a session that completed has
\* delivered exactly the Tokens of the Token Event frames, in their order.
C7_MalformedFrameTolerance ==
  \A s \in Sessions :
    (\A i \in DOMAIN script[s] : script[s][i] \in TokenBlocks \cup MalformedBlocks) =>
      /\ \A i \in DOMAIN calls[s] :
           calls[s][i].cb = "onError" => calls[s][i].message \in TransportMessages
      /\ (pc[s] = "reading" /\ wire[s] = <<>> /\ ~aborted[s]) => ENABLED ReadDone(s)
      /\ outcome[s] = "completed" => TokensOf(calls[s]) = ExpectedTokens(script[s])

\* C8: for a body without out-of-range token literals, the onToken calls made
\* so far are exactly the Tokens (text = token, riskScore = hallucination_prob)
\* of the Token Event frames the loop has taken up, one call per frame.
C8_EveryTokenEventDelivered ==
  \A s \in Sessions :
    (\A i \in DOMAIN script[s] : script[s][i] \notin OutOfRangeBlocks) =>
      TokensOf(calls[s]) = ExpectedTokens(SubSeq(script[s], 1, handled[s]))

\* The tokens the decoder makes of a sequence of frames, in arrival order.
RECURSIVE DecodeAll(_)
DecodeAll(fs) ==
  IF fs = <<>> THEN <<>>
  ELSE LET h == HandleLine(Head(fs)) IN
       (IF h.act = "token" THEN <<h.token>> ELSE <<>>) \o DecodeAll(Tail(fs))

\* C9: the onToken calls of a session are the tokens of the frames handled so
\* far in the order the frames arrived, whatever their order fields;
\* summaryTokens is that same sequence; and every step leaves summaryTokens
\* as it is or appends to it.
C9_ArrivalOrder ==
  /\ [](\A s \in Sessions :
          pc[s] # "idle" =>
            /\ TokensOf(calls[s]) = DecodeAll(SubSeq(frames[s], 1, handled[s]))
            /\ summaryTokens = TokensOf(calls[s]))
  /\ [][/\ Len(summaryTokens') >= Len(summaryTokens)
        /\ SubSeq(summaryTokens', 1, Len(summaryTokens)) = summaryTokens]_vars

\* Two tokens were rendered whose frames arrived with order 1 before order 0.
C9_Witness ==
  \E s \in Sessions :
    /\ script[s] = <<"tThere", "tHi">>
    /\ summaryTokens = <<TokenOfBlock("tThere"), TokenOfBlock("tHi")>>

\* C10: no onToken call is made for a token literal whose hallucination_prob
\* is outside [0,1] or whose order is negative.
C10_DefensiveDecode ==
  \A s \in Sessions :
    \A i \in DOMAIN calls[s] :
      IsToken(calls[s][i]) =>
        \A b \in OutOfRangeBlocks :
          [text |-> calls[s][i].text, riskScore |-> calls[s][i].riskScore]
            # TokenOfBlock(b)

\* The messages of the errors thrown for a response that cannot be streamed.
ConnectionMessages ==
  {Str("Response body is null")} \cup {Str(StartFailure(st)) : st \in StatusTexts}

\* C11: a session that ends while it awaits the response, without having been
\* aborted, ends failed with exactly one callback, an onError carrying a
\* connection-level message; and a session that reported a non-2xx response
\* or a missing body has made that one callback only (no onToken, no
\* onComplete), has failed and has read no frame.
C11_ConnectionFailure ==
  /\ [](\A s \in Sessions :
          (\E i \in DOMAIN calls[s] :
             calls[s][i].cb = "onError" /\ calls[s][i].message \in ConnectionMessages) =>
            /\ Len(calls[s]) = 1
            /\ pc[s] = "done" /\ outcome[s] = "failed"
            /\ frames[s] = <<>> /\ handled[s] = 0)
  /\ [][\A s \in Sessions :
          (pc[s] = "fetching" /\ ~aborted[s] /\ pc'[s] = "done") =>
            /\ outcome'[s] = "failed"
            /\ \E m \in ConnectionMessages \cup {Str("Failed to fetch")} :
                 calls'[s] = <<ErrorCall(m)>>]_vars

\* The response was 503 Service Unavailable: the session failed with the one
\* onError call.
C11_Witness ==
  \E s \in Sessions :
    /\ pc[s] = "done" /\ outcome[s] = "failed"
    /\ calls[s] = <<ErrorCall(Str(StartFailure("Service Unavailable")))>>

\* C12: a session that ends while a read is pending ends aborted, with no
\* callback and the component's status and error as they were, when its
\* signal is aborted; otherwise it either completes at the end of the body or
\* fails with one onError call carrying the message of the exception.
C12_TransportException ==
  [][\A s \in Sessions :
       (pc[s] = "reading" /\ pc'[s] = "done") =>
         IF aborted[s]
           THEN /\ outcome'[s] = "aborted" /\ calls'[s] = calls[s]
                /\ status' = status /\ error' = error
           ELSE \/ /\ wire[s] = <<>> /\ outcome'[s] = "completed"
                   /\ calls'[s] = Append(calls[s], CompleteCall)
                \/ /\ outcome'[s] = "failed"
                   /\ calls'[s] = Append(calls[s], ErrorCall(Str("network error")))]_vars

\* The connection broke after one token had been delivered and before the
\* body was read to its end.
C12_Witness ==
  \E s \in Sessions :
    /\ outcome[s] = "failed" /\ Len(calls[s]) = 2
    /\ IsToken(calls[s][1])
    /\ calls[s][2] = ErrorCall(Str("network error"))
    /\ Len(frames[s]) < Len(script[s])

\* C13: a session that completed has called onComplete once, as its last
\* callback, after the onToken calls of all the frames received, and has
\* called onError never; its body held no Error Event; a session that is not
\* aborted and ends at the end of its body without a transport exception
\* completes; and once a session has completed no frame is taken up and no
\* callback is made.
C13_EndOfBodyCompletes ==
  /\ [](\A s \in Sessions :
          outcome[s] = "completed" =>
            /\ calls[s] # <<>> /\ calls[s][Len(calls[s])] = CompleteCall
            /\ \A i \in 1..(Len(calls[s]) - 1) : IsToken(calls[s][i])
            /\ handled[s] = Len(frames[s]) /\ Len(frames[s]) = Len(script[s])
            /\ TokensOf(calls[s]) = DecodeAll(frames[s])
            /\ FirstError(script[s]) = 0)
  /\ [][\A s \in Sessions :
          /\ (pc[s] = "reading" /\ ~aborted[s] /\ wire[s] = <<>>
                /\ pc'[s] = "done" /\ outcome'[s] # "failed") =>
               /\ outcome'[s] = "completed"
               /\ calls'[s] = Append(calls[s], CompleteCall)
          /\ outcome[s] = "completed" =>
               /\ calls'[s] = calls[s] /\ handled'[s] = handled[s]
               /\ frames'[s] = frames[s] /\ outcome'[s] = "completed"]_vars

\* A body of two Token Event frames was read to its end.
C13_Witness ==
  \E s \in Sessions :
    /\ outcome[s] = "completed" /\ Len(script[s]) = 2
    /\ calls[s] = <<TokenCall(TokenOfBlock("tHi")), TokenCall(TokenOfBlock("tThere")),
                    CompleteCall>>

\* A body's frames with the lines that do not start with "data: " removed.
PlainBlock(b) == IF b \in MultiLineBlocks THEN "tHi" ELSE b
PlainScript(sc) == [i \in DOMAIN sc |-> PlainBlock(sc[i])]

\* C14: for a body whose frames are Token Events, Error Events and Token
\* Events with a comment line before or after the data line, the onToken
\* calls made so far are the Tokens of the frames taken up, as if the comment
\* lines were not there, and no frame with a comment line triggers onError.
C14_NonDataLinesIgnored ==
  \A s \in Sessions :
    (\A i \in DOMAIN script[s] :
       script[s][i] \in TokenBlocks \cup ErrorBlocks \cup MultiLineBlocks) =>
      /\ TokensOf(calls[s]) =
           ExpectedTokens(PlainScript(SubSeq(script[s], 1, handled[s])))
      /\ \A i \in DOMAIN calls[s] :
           calls[s][i].cb = "onError" =>
             \/ calls[s][i].message \in TransportMessages
             \/ /\ handled[s] = FirstError(script[s])
                /\ calls[s][i].message = Objects[script[s][handled[s]]].message

\* JSON object literals that are neither a Token Event nor an Error Event.
UnknownBlocks ==
  {b \in DOMAIN Objects : ~IsTokenEvent(Objects[b]) /\ ~IsErrorEvent(Objects[b])}

\* C15: a frame whose JSON is neither a Token Event nor an Error Event makes
\* no callback and does not end the session: whenever the loop takes up such
\* a frame the callbacks, the outcome and the component's state stay as they
\* are and the session goes on to the next frame or the next read.
C15_UnknownEventDiscarded ==
  [][\A s \in Sessions :
       (handled'[s] = handled[s] + 1 /\ script[s][handled'[s]] \in UnknownBlocks) =>
         /\ calls'[s] = calls[s] /\ outcome'[s] = outcome[s]
         /\ pc'[s] \in {"reading", "processing"}
         /\ UNCHANGED uiVars]_vars

\* What a session owns: the locals of its call and its callbacks' record.
SessionState(s) ==
  <<pc[s], aborted[s], buffer[s], pending[s], lines[s], inCallback[s], wire[s],
    frames[s], handled[s], calls[s], outcome[s], abortCalls[s]>>

\* C16: of two sessions running side by side, each step changes the state of
\* one session only; a session's signal is aborted only by calls of its own
\* abort function; the frames a session has cut out and its buffer are those
\* of its own body, and its onToken calls are the tokens of its own frames;
\* and a session that failed or was aborted leaves the other free to
\* complete.
C16_SessionIndependence ==
  /\ [](\A s \in Sessions :
          /\ aborted[s] <=> abortCalls[s] > 0
          /\ outcome[s] = "aborted" => abortCalls[s] > 0
          /\ TokensOf(calls[s]) = DecodeAll(SubSeq(frames[s], 1, handled[s]))
          /\ ExpectedTokens(SubSeq(script[s], 1, handled[s])) = TokensOf(calls[s])
          /\ pc[s] \in {"reading", "processing"} =>
               /\ frames[s] = OneChunk(Delivered(s)).lines
               /\ buffer[s] = OneChunk(Delivered(s)).buffer
          /\ (pc[s] = "reading" /\ ~aborted[s] /\ wire[s] = <<>>) => ENABLED ReadDone(s))
  /\ [][\A s, t \in Sessions :
          (s # t /\ SessionState(s)' # SessionState(s)) =>
            SessionState(t)' = SessionState(t)]_vars

\* The first session was aborted before it had cut out a frame of its body,
\* and the second, never aborted, has delivered its token and completed.
C16_Witness ==
  /\ outcome[1] = "aborted" /\ frames[1] = <<>> /\ script[1] # <<>>
  /\ abortCalls[2] = 0
  /\ outcome[2] = "completed"
  /\ calls[2] = <<TokenCall(TokenOfBlock("tThere")), CompleteCall>>

\* A step in which handleSummarize starts a stream.
StartsStream ==
  \E n \in Sessions :
    /\ pc[n] = "idle" /\ pc'[n] = "fetching"
    /\ abortStreamRef' = n

\* A step in which the stream whose abort function the component holds makes
\* the callback c.
CurrentStreamCalls(c) ==
  /\ abortStreamRef # 0
  /\ calls'[abortStreamRef] = Append(calls[abortStreamRef], c)

\* C17: status becomes 'loading' only in a step of handleSummarize that
\* starts a stream; it becomes 'error' only from 'loading' and only in a step
\* where the current stream calls onError with the message then shown; it
\* becomes 'success' only from 'loading' and only in a step where the current
\* stream calls onComplete; a step that aborts a stream leaves status at
\* 'loading' (a new stream started) or 'idle' (the dialog closed), and the
\* silent end of an aborted stream changes nothing of the component.
C17_StatusMachine ==
  [][/\ (status' = "loading" /\ (status # "loading" \/ abortStreamRef' # abortStreamRef))
          => StartsStream
     /\ (status' = "error" /\ status # "error") =>
          /\ status = "loading"
          /\ CurrentStreamCalls(ErrorCall(error'))
     /\ (status' = "success" /\ status # "success") =>
          /\ status = "loading"
          /\ CurrentStreamCalls(CompleteCall)
     /\ (status' = "idle" /\ status # "idle") =>
          /\ status = "loading" /\ abortStreamRef # 0 /\ aborted'[abortStreamRef]
     /\ \A s \in Sessions :
          /\ (aborted'[s] /\ ~aborted[s]) => status' \in {"loading", "idle"}
          /\ (outcome'[s] = "aborted" /\ outcome[s] # "aborted") => UNCHANGED uiVars
          /\ (status = "loading" /\ status' = "loading" /\ calls'[s] # calls[s]) =>
               /\ s = abortStreamRef
               /\ IsToken(calls'[s][Len(calls'[s])])]_vars

\* A stream failed and Retry was clicked: the second stream is loading after
\* the first had set 'error'; and a stream aborted by closing the dialog has
\* ended with the status 'idle'.
C17_Witness ==
  /\ outcome[1] = "failed" /\ pc[2] = "done" /\ outcome[2] = "aborted"
  /\ status = "idle" /\ abortStreamRef = 0

\* The Error Event frames among the frames written to a client.
RelayErrors(c) ==
  SelectSeq(relay[c].out, LAMBDA f : f \in {"error", "timeout"})

\* C18: in the step in which a client leaves its stream, the upstream session
\* paired with that client becomes aborted and the pair of every other
\* client stays as it is; an upstream session is aborted only if its own
\* client has left or its own budget is used up.
C18_RelayCancellation ==
  /\ [](\A c \in Sessions :
          /\ relay[c].conn = "gone" => relay[c].up = "aborted"
          /\ relay[c].up = "aborted" =>
               \/ relay[c].conn = "gone"
               \/ relay[c].elapsed = TimeoutBudget)
  /\ [][\A c \in Sessions :
          (relay[c].conn = "open" /\ relay'[c].conn = "gone") =>
            /\ relay'[c].up = "aborted"
            /\ \A d \in Sessions \ {c} : relay'[d] = relay[d]]_vars

\* One client left after a token and its upstream session is aborted, while
\* the upstream session of another client went on and completed.
C18_Witness ==
  \E c, d \in Sessions :
    /\ relay[c].conn = "gone" /\ relay[c].up = "aborted" /\ relay[c].out = <<"token">>
    /\ relay[d].up = "completed" /\ RelayTokens(d) = 2

\* C19: a client stream whose upstream session failed has been written
\* exactly one Error Event, as its last frame, and is closed; and a client
\* stream the relay closed without any Error Event is one whose upstream
\* session completed.
C19_RelayFailurePropagation ==
  \A c \in Sessions :
    /\ relay[c].up = "failed" =>
         /\ relay[c].conn = "closed"
         /\ RelayErrors(c) = <<"error">>
         /\ relay[c].out[Len(relay[c].out)] = "error"
    /\ (relay[c].conn = "closed" /\ RelayErrors(c) = <<>>) => relay[c].up = "completed"
    /\ Len(RelayErrors(c)) <= 1

\* An upstream session failed after one token had been relayed.
C19_Witness ==
  \E c \in Sessions :
    /\ relay[c].up = "failed" /\ relay[c].out = <<"token", "error">>

\* C20: an upstream session whose budget is used up can be timed out; a
\* client stream that was written the timeout Error Event has its upstream
\* session aborted, is closed and has that event as its last frame; the
\* timeout is written only when the budget is used up; and after it nothing
\* more is written to that client.
C20_RelayTimeout ==
  /\ [](\A c \in Sessions :
          /\ (relay[c].up = "streaming" /\ relay[c].elapsed = TimeoutBudget) =>
               ENABLED RelayTimeout(c)
          /\ (\E i \in DOMAIN relay[c].out : relay[c].out[i] = "timeout") =>
               /\ relay[c].up = "aborted" /\ relay[c].conn = "closed"
               /\ relay[c].elapsed = TimeoutBudget
               /\ relay[c].out[Len(relay[c].out)] = "timeout"
               /\ RelayErrors(c) = <<"timeout">>)
  /\ [][\A c \in Sessions :
          (\E i \in DOMAIN relay[c].out : relay[c].out[i] = "timeout") =>
            relay'[c] = relay[c]]_vars

\* An upstream session was timed out after a token had been relayed.
C20_Witness ==
  \E c \in Sessions :
    /\ relay[c].up = "aborted" /\ relay[c].out = <<"token", "timeout">>

\* The sessions handleSummarize has started, and the latest of them (0 when
\* there is none).
Started == {s \in Sessions : pc[s] # "idle"}
LatestSession == IF Started = {} THEN 0 ELSE CHOOSE s \in Started : \A u \in Started : u <= s

\* A started session that has neither ended nor been aborted.
InFlight(s) == pc[s] \notin {"idle", "done"} /\ ~aborted[s]

\* C21: under the component at most one started session is neither aborted
\* nor ended, and it is the latest one, whose abort function the component
\* holds: every session started before it has had its abort function called
\* or had already ended.
C21_OneInFlightSession ==
  /\ Cardinality({s \in Sessions : InFlight(s)}) <= 1
  /\ \A s \in Sessions :
       InFlight(s) => s = LatestSession /\ abortStreamRef = s
  /\ \A s \in Started :
       s # LatestSession => (aborted[s] /\ abortCalls[s] = 1) \/ pc[s] = "done"

\* Summarize was clicked again while the first stream was still reading: the
\* first is aborted though not yet ended, the second is in flight.
C21_Witness ==
  /\ aborted[1] /\ pc[1] = "reading" /\ calls[1] # <<>>
  /\ InFlight(2) /\ abortStreamRef = 2

\* C22: summaryTokens is the sequence of tokens the latest session has
\* delivered, in the order of its onToken calls; the status 'error' and the
\* error shown, and the status 'success', come from the latest session's
\* last callback; and only the latest session makes callbacks: a step in
\* which an earlier session moves makes no callback and leaves the
\* component's state as it is.
C22_NoCrossRequestInterference ==
  /\ [](LatestSession # 0 =>
          /\ summaryTokens = TokensOf(calls[LatestSession])
          /\ abortStreamRef \in {0, LatestSession}
          /\ status = "error" =>
               /\ calls[LatestSession] # <<>>
               /\ calls[LatestSession][Len(calls[LatestSession])] = ErrorCall(error)
          /\ status = "success" =>
               /\ calls[LatestSession] # <<>>
               /\ calls[LatestSession][Len(calls[LatestSession])] = CompleteCall)
  /\ [][\A s \in Sessions :
          (s # LatestSession' /\ SessionState(s)' # SessionState(s)) =>
            /\ calls'[s] = calls[s]
            /\ \/ UNCHANGED uiVars
               \/ StartsStream]_vars

\* The first stream had delivered a token when Summarize was clicked again;
\* the first has since ended and the tokens shown are the second's alone.
C22_Witness ==
  /\ Len(TokensOf(calls[1])) = 1 /\ outcome[1] = "aborted"
  /\ Len(TokensOf(calls[2])) = 1 /\ summaryTokens = TokensOf(calls[2])
  /\ status = "loading"

\* C23: a step that closes the dialog while the status is 'loading' sets the
\* signal of the stream the component holds, clears abortStreamRef and sets
\* the status to 'idle'; and a stream whose signal is set makes no further
\* callback, and its steps leave status, error and summaryTokens as they
\* are.
C23_DialogCloseAborts ==
  [][/\ (dialogOpen /\ ~dialogOpen' /\ status = "loading") =>
          /\ abortStreamRef # 0 /\ aborted'[abortStreamRef]
          /\ abortStreamRef' = 0
          /\ status' = "idle"
     /\ \A s \in Sessions :
          aborted[s] =>
            /\ aborted'[s]
            /\ calls'[s] = calls[s]
            /\ (SessionState(s)' # SessionState(s)) =>
                 (status' = status /\ error' = error /\ summaryTokens' = summaryTokens)]_vars

\* The dialog was closed while the stream was reading, after one token: the
\* stream has ended aborted and the component is idle with that token.
C23_Witness ==
  /\ ~dialogOpen /\ status = "idle" /\ abortStreamRef = 0
  /\ outcome[1] = "aborted" /\ Len(calls[1]) = 1 /\ Len(summaryTokens) = 1
  /\ pc[2] = "idle"

\* C24: abortStreamRef holds an abort function exactly when the status is
\* 'loading', and the function it holds is that of the latest session.
C24_RefIffLoading ==
  /\ (abortStreamRef # 0) <=> (status = "loading")
  /\ abortStreamRef # 0 => abortStreamRef = LatestSession

\* A stream completed (the ref is cleared), and a second stream is loading.
C24_Witness ==
  /\ outcome[1] = "completed" /\ status = "loading" /\ abortStreamRef = 2

\* C25: in the record of a session's callbacks no onToken call comes after
\* an onComplete or an onError call.
C25_NoTokenAfterTerminal ==
  \A s \in Sessions :
    \A i, j \in DOMAIN calls[s] :
      (i < j /\ IsTerminal(calls[s][i])) => ~IsToken(calls[s][j])

\* An Error Event frame and the Token Event frame after it arrived in one
\* chunk: onError was called and the token frame was never taken up.
C25_Witness ==
  \E s \in Sessions :
    /\ script[s] = <<"errBoom", "tThere">>
    /\ Len(frames[s]) = 2 /\ handled[s] = 1
    /\ IsTerminal(calls[s][Len(calls[s])]) /\ pc[s] = "done"


\* The frames of a body that the server terminated with "\n\n".
IsTerminatedBlock(b) == b \notin TailBlocks
TerminatedFrames(sc) == SelectSeq(sc, IsTerminatedBlock)

\* The callbacks that frames caused: onToken, and onError with the message of
\* a frame.
FrameCalls(s) ==
  {i \in DOMAIN calls[s] :
     \/ IsToken(calls[s][i])
     \/ calls[s][i].cb = "onError" /\ calls[s][i].message \notin TransportMessages}

\* C26: when the body ends with a frame that has no "\n\n" after it, that
\* frame never becomes a frame of the loop and causes no onToken and no
\* onError although it holds a complete event: at the end of the body it is
\* still in the buffer, the end of the body is taken, and a session that
\* completes has called onToken for the terminated Token Event frames only,
\* then onComplete.
C26_UnterminatedTailDiscarded ==
  \A s \in Sessions :
    LET sc == script[s]
        n == Len(sc)
    IN
    (n > 0 /\ sc[n] \in TailBlocks) =>
      /\ Len(frames[s]) <= n - 1
      /\ Cardinality(FrameCalls(s)) <= n - 1
      /\ (pc[s] = "reading" /\ wire[s] = <<>> /\ ~aborted[s]) =>
           /\ buffer[s] = Decode(<<>>, BlockBytes(sc[n])).text
           /\ HandleLine(buffer[s]).act \in {"token", "error"}
           /\ ENABLED ReadDone(s)
      /\ outcome[s] = "completed" =>
           /\ TokensOf(calls[s]) = ExpectedTokens(SubSeq(sc, 1, n - 1))
           /\ calls[s][Len(calls[s])] = CompleteCall
           /\ \A i \in DOMAIN calls[s] : calls[s][i].cb # "onError"

C26_Witness ==
  \E s \in Sessions :
    /\ script[s] = <<"tHi", "errTail">>
    /\ outcome[s] = "completed"
    /\ calls[s] = <<TokenCall(TokenOfBlock("tHi")), CompleteCall>>

\* The Error Event frames of the bodies of EdgeScripts.
EdgeErrorBlocks == {b \in EdgeBlockNames : IsErrorEvent(Objects[b])}

\* C27: a frame whose type is "error" and that also has the fields of a token
\* is handled as an Error Event: it ends the session with onError of its
\* message and no onToken of its token, and no frame causes more than one
\* callback.
C27_ErrorBeforeToken ==
  \A s \in Sessions :
    /\ Cardinality(FrameCalls(s)) <= handled[s]
    /\ \A i \in 1..handled[s] :
         script[s][i] = "errTok" =>
           /\ i = handled[s]
           /\ pc[s] = "done" /\ outcome[s] = "failed"
           /\ calls[s][Len(calls[s])] = ErrorCall(Str("boom2"))
           /\ TokensOf(calls[s]) = ExpectedTokens(SubSeq(script[s], 1, i - 1))
           /\ summaryTokens = TokensOf(calls[s])

C27_Witness ==
  \E s \in Sessions :
    /\ script[s] = <<"tHi", "errTok">>
    /\ handled[s] = 2
    /\ calls[s] = <<TokenCall(TokenOfBlock("tHi")), ErrorCall(Str("boom2"))>>

\* The message onError is to get for an Error Event.
ExpectedMessage(o) ==
  IF o.message = Undefined \/ o.message = Str("")
    THEN Str("Unknown error occurred")
    ELSE o.message

\* C28: the frame of an Error Event ends the session with onError of the
\* event's message when it has a non-empty one, and of
\* 'Unknown error occurred' when the message is missing or empty; the status
\* becomes 'error' with that message.
C28_ErrorMessageDefault ==
  \A s \in Sessions :
    \A i \in 1..handled[s] :
      script[s][i] \in EdgeErrorBlocks =>
        /\ i = handled[s]
        /\ outcome[s] = "failed"
        /\ calls[s][Len(calls[s])] = ErrorCall(ExpectedMessage(Objects[script[s][i]]))
        /\ status = "error" /\ error = ExpectedMessage(Objects[script[s][i]])

C28_Witness ==
  /\ \E s \in Sessions :
       /\ script[s] = <<"tHi", "errNoMsg">>
       /\ calls[s] = <<TokenCall(TokenOfBlock("tHi")),
                       ErrorCall(Str("Unknown error occurred"))>>
  /\ status = "error" /\ error = Str("Unknown error occurred")

\* A session that ended with onError of an empty message's default.
C28_WitnessEmpty ==
  \E s \in Sessions :
    /\ script[s] = <<"errEmpty">>
    /\ calls[s] = <<ErrorCall(Str("Unknown error occurred"))>>


\* The three pieces of state the client data effect writes.
ClientData == <<provider.documents, provider.messages, provider.isLoadingClientData>>

====
